---- MODULE Spec2Model ----
(***************************************************************************)
(* Model of the renderers of src/src/renderer.rs: the single threaded      *)
(* renderer, the worker thread of ParallelWorker::spawn and the dispatch   *)
(* thread of ParalellRenderer::execute, talking over one control channel   *)
(* and one result channel per worker (Spec, FairSpec); of the task threads *)
(* and the filter threads of main in src/src/main.rs (MainSpec); and of    *)
(* the values of src/rtrace/src/core (ColorSpec, IntersectionSpec); and of  *)
(* the matrix of src/src/linalg/matrix.rs (MatrixSpec).                    *)
(***************************************************************************)
EXTENDS Integers, Sequences, FiniteSets, TLC

\* ------------------------------------------------------------------ bounds
\* largest thread_count handed to ParalellRenderer::new
MaxThreadCount == 3
\* number of (ray, coordinate) items of the view
ViewLen == 2
\* number of worker threads that may die during one execute
MaxFailures == 1

\* identities of the threads one execute can spawn: the initial workers and
\* one replacement for every failure
Threads == 1..((MaxThreadCount - 1) + MaxFailures)

Rays == 1..ViewLen

VARIABLES
    thread_count,   \* ParalellRenderer.thread_count
    world,          \* the rays for which World::cast_ray gives Some(color)
    workers,        \* the Vec<ParallelWorker> of execute: thread identities
    spawned,        \* number of threads spawned so far
    dpc,            \* position of the dispatch thread in execute
    worker_index,   \* index of the for loop the dispatch thread is in
    message,        \* the ControlMessage handed back by a failed send
    view_iterator,  \* position of the ViewIterator (next item to hand out)
    output,         \* the RendererOutput: coordinate -> Option<Color>
    wpc,            \* position of every worker thread
    task,           \* the CastRay a worker thread is computing
    control,        \* control channel of every worker: buffered messages
    result,         \* result channel of every worker: buffered messages
    failures,       \* number of worker threads that died
    set_count,      \* history: number of set_output calls per coordinate
    contributed,    \* history: coordinates whose result-or-miss was taken
    sync_cast,      \* history: coordinates the dispatch thread cast itself
    unanswered,     \* history: CastRay sent to a worker minus Results it sent
    last_sent,      \* history: type of the last message a worker sent
    exit_sent,      \* history: workers the dispatcher sent Exit to
    joined,         \* history: workers the dispatcher joined
    drained,        \* history: coordinates of the Results the final drain took
    exit_while_busy \* history: workers sent Exit with a CastRay still unanswered

\* the state of main (src/src/main.rs)
VARIABLES
    main_pc,          \* position of the main thread
    thread_container, \* the Vec<JoinHandle> of the task threads
    task_iterator,    \* position of the shared task iterator
    tpc,              \* position of every task thread
    executable_task,  \* the task a task thread holds
    worldview_buffer, \* the primary buffer of the WorldView: pixel -> Option
    model_buffers,    \* the per-model buffers of the shader: pixel -> Option
    filter_container, \* the second Vec<JoinHandle>: the filter threads
    fpc,              \* position of every filter thread
    handed,           \* history: the tasks in the order next() returned them
    executions,       \* history: number of times every task was executed
    threads_joined,   \* history: number of task threads main has joined
    combined          \* history: what was combined onto the primary buffer

\* the state of the values of rtrace/src/core
VARIABLES
    color_self,       \* a ColorBase<f64>: the receiver of the call
    color_result,     \* the color the last call returned or left in self
    color_call,       \* the last method called on the color
    ray_origin,       \* origin of the ray handed to RayIntersection::new
    point,            \* intersection point handed to RayIntersection::new
    intersection      \* the Result RayIntersection::new returned

\* the final image write of main
VARIABLES
    created,          \* what File::create returned for output/result.png
    written,          \* what write_to returned for the created file
    stderr            \* the lines main has printed with eprintln

\* the state of the matrix of src/linalg/matrix.rs
VARIABLES
    matrix_self,      \* a Matrix: the receiver of the call
    matrix_rhs,       \* the Matrix handed to the call
    matrix_call,      \* the last method called on the matrix
    matrix_result     \* the Result the last call returned

renderer_vars ==
    <<thread_count, world, workers, spawned, dpc, worker_index, message,
      view_iterator, output, wpc, task, control, result, failures,
      set_count, contributed, sync_cast, unanswered, last_sent, exit_sent,
      joined, drained, exit_while_busy>>

main_vars ==
    <<main_pc, thread_container, task_iterator, tpc, executable_task,
      worldview_buffer, model_buffers, filter_container, fpc, handed,
      executions, threads_joined, combined>>

core_vars ==
    <<color_self, color_result, color_call, ray_origin, point, intersection>>

io_vars == <<created, written, stderr>>

matrix_vars == <<matrix_self, matrix_rhs, matrix_call, matrix_result>>

vars == <<renderer_vars, main_vars, core_vars, io_vars, matrix_vars>>

\* ---------------------------------------------------------------- the view
\* Option<T>: None is the empty sequence, Some(x) the sequence <<x>>
None == <<>>
Some(x) == <<x>>

\* the coordinate of the i-th item of the view (one screen row)
Coord(i) == <<i - 1, 0>>

Coords == {Coord(i) : i \in Rays}

\* ViewIterator::next at position pos: the (ray, coordinate) pair or None
ViewItem(pos) ==
    IF pos <= ViewLen THEN Some([ray |-> pos, coord |-> Coord(pos)]) ELSE None

\* the worlds rendered: one where the odd rays hit and the even rays miss, and
\* one where the even rays hit and the odd rays miss
Worlds == {{r \in Rays : r % 2 = 1}, {r \in Rays : r % 2 = 0}}

\* RayCaster::cast_ray of the shared immutable World
cast_ray(w, ray) == IF ray \in w THEN Some(ray) ELSE None

\* ------------------------------------------------------------ the messages
CastRay(ray, coord) == [type |-> "CastRay", ray |-> ray, coord |-> coord]
Exit == [type |-> "Exit"]
Ready == [type |-> "Ready"]
Result(color_option, coord) ==
    [type |-> "Result", color |-> color_option, coord |-> coord]

NoMessage == [type |-> "None"]

Range(s) == {s[k] : k \in 1..Len(s)}

\* the thread has ended: its control_rx and worker_tx are dropped
Ended(t) == wpc[t] \in {"exited", "closed", "dead"}

\* the ParallelWorker of thread t is owned by the pool: its control_tx and
\* worker_rx exist
Owned(t) == t \in Range(workers)

\* RendererOutput::set_output
set_output(out, coord, color) == [out EXCEPT ![coord] = Some(color)]

\* ------------------------------------------------------- the worker thread
\* the closure's first statement: send Ready, panicking when it fails
WorkerStart(t) ==
    /\ wpc[t] = "start"
    /\ IF Owned(t)
       THEN /\ result' = [result EXCEPT ![t] = Append(@, Ready)]
            /\ last_sent' = [last_sent EXCEPT ![t] = "Ready"]
            /\ wpc' = [wpc EXCEPT ![t] = "recv"]
            /\ control' = control
       ELSE /\ wpc' = [wpc EXCEPT ![t] = "dead"]
            /\ control' = [control EXCEPT ![t] = <<>>]
            /\ UNCHANGED <<result, last_sent>>
    /\ UNCHANGED <<thread_count, world, workers, spawned, dpc, worker_index,
                   message, view_iterator, output, task, failures, set_count,
                   contributed, sync_cast, unanswered, exit_sent, joined,
                   drained, exit_while_busy>>
    /\ UNCHANGED <<main_vars, core_vars, io_vars, matrix_vars>>

\* control_rx.recv() returns a CastRay
WorkerRecvCastRay(t) ==
    /\ wpc[t] = "recv"
    /\ control[t] # <<>>
    /\ Head(control[t]).type = "CastRay"
    /\ control' = [control EXCEPT ![t] = Tail(@)]
    /\ task' = [task EXCEPT ![t] = Head(control[t])]
    /\ wpc' = [wpc EXCEPT ![t] = "cast"]
    /\ UNCHANGED <<thread_count, world, workers, spawned, dpc, worker_index,
                   message, view_iterator, output, result, failures, set_count,
                   contributed, sync_cast, unanswered, last_sent, exit_sent,
                   joined, drained, exit_while_busy>>
    /\ UNCHANGED <<main_vars, core_vars, io_vars, matrix_vars>>

\* the worker loop going on after Exit instead of breaking
WorkerRecvExit_Ignored(t) ==
    /\ wpc[t] = "recv"
    /\ \/ /\ control[t] # <<>> /\ Head(control[t]).type = "Exit"
          /\ wpc' = wpc
       \/ /\ control[t] = <<>> /\ ~Owned(t)
          /\ wpc' = [wpc EXCEPT ![t] = "closed"]
    /\ control' = [control EXCEPT ![t] = <<>>]
    /\ UNCHANGED <<thread_count, world, workers, spawned, dpc, worker_index,
                   message, view_iterator, output, task, result, failures,
                   set_count, contributed, sync_cast, unanswered, last_sent,
                   exit_sent, joined, drained, exit_while_busy>>
    /\ UNCHANGED <<main_vars, core_vars, io_vars, matrix_vars>>
\* control_rx.recv() returns Exit ("exited"), or fails because control_tx is
\* dropped ("closed"): the loop is left and the thread ends
WorkerRecvExit(t) ==
    /\ wpc[t] = "recv"
    /\ \/ /\ control[t] # <<>> /\ Head(control[t]).type = "Exit"
          /\ wpc' = [wpc EXCEPT ![t] = "exited"]
       \/ /\ control[t] = <<>> /\ ~Owned(t)
          /\ wpc' = [wpc EXCEPT ![t] = "closed"]
    /\ control' = [control EXCEPT ![t] = <<>>]
    /\ UNCHANGED <<thread_count, world, workers, spawned, dpc, worker_index,
                   message, view_iterator, output, task, result, failures,
                   set_count, contributed, sync_cast, unanswered, last_sent,
                   exit_sent, joined, drained, exit_while_busy>>
    /\ UNCHANGED <<main_vars, core_vars, io_vars, matrix_vars>>

\* WorkerCast with the Ready after the Result forgotten
WorkerCast_NoReady(t) ==
    /\ wpc[t] = "cast"
    /\ LET msg == Result(cast_ray(world, task[t].ray), task[t].coord)
       IN /\ result' = [result EXCEPT ![t] = Append(@, msg)]
          /\ last_sent' = [last_sent EXCEPT ![t] = "Result"]
          /\ unanswered' = [unanswered EXCEPT ![t] = @ - 1]
          /\ wpc' = [wpc EXCEPT ![t] = "recv"]
    /\ task' = [task EXCEPT ![t] = NoMessage]
    /\ UNCHANGED <<thread_count, world, workers, spawned, dpc, worker_index,
                   message, view_iterator, output, control, failures, set_count,
                   contributed, sync_cast, exit_sent, joined, drained,
                   exit_while_busy>>
    /\ UNCHANGED <<main_vars, core_vars, io_vars, matrix_vars>>

\* WorkerCast that gives up the cast when an Exit is waiting in the channel
WorkerCast_Interrupted(t) ==
    /\ wpc[t] = "cast"
    /\ LET msg == Result(cast_ray(world, task[t].ray), task[t].coord)
       IN IF control[t] # <<>> /\ Head(control[t]).type = "Exit"
          THEN /\ wpc' = [wpc EXCEPT ![t] = "exited"]
               /\ control' = [control EXCEPT ![t] = <<>>]
               /\ UNCHANGED <<result, last_sent, unanswered>>
          ELSE /\ result' = [result EXCEPT ![t] = Append(@, msg)]
               /\ last_sent' = [last_sent EXCEPT ![t] = "Result"]
               /\ unanswered' = [unanswered EXCEPT ![t] = @ - 1]
               /\ wpc' = [wpc EXCEPT ![t] = "ready"]
               /\ control' = control
    /\ task' = [task EXCEPT ![t] = NoMessage]
    /\ UNCHANGED <<thread_count, world, workers, spawned, dpc, worker_index,
                   message, view_iterator, output, failures, set_count,
                   contributed, sync_cast, exit_sent, joined, drained,
                   exit_while_busy>>
    /\ UNCHANGED <<main_vars, core_vars, io_vars, matrix_vars>>

\* WorkerCast in which the worker thread writes the color to the output itself
WorkerCast_Writes(t) ==
    /\ wpc[t] = "cast"
    /\ LET cast_result == cast_ray(world, task[t].ray)
           msg == Result(None, task[t].coord)
       IN /\ result' = [result EXCEPT ![t] = Append(@, msg)]
          /\ output' = IF cast_result # None
                        THEN set_output(output, task[t].coord, cast_result[1])
                        ELSE output
          /\ last_sent' = [last_sent EXCEPT ![t] = "Result"]
          /\ unanswered' = [unanswered EXCEPT ![t] = @ - 1]
          /\ wpc' = [wpc EXCEPT ![t] = "ready"]
    /\ task' = [task EXCEPT ![t] = NoMessage]
    /\ UNCHANGED <<thread_count, world, workers, spawned, dpc, worker_index,
                   message, view_iterator, control, failures, set_count,
                   contributed, sync_cast, exit_sent, joined, drained,
                   exit_while_busy>>
    /\ UNCHANGED <<main_vars, core_vars, io_vars, matrix_vars>>

\* cast_ray, then send Result(cast_result, coord); a failed send ends the thread
WorkerCast(t) ==
    /\ wpc[t] = "cast"
    /\ LET cast_result == cast_ray(world, task[t].ray)
           msg == Result(cast_result, task[t].coord)
       IN IF Owned(t)
          THEN /\ result' = [result EXCEPT ![t] = Append(@, msg)]
               /\ last_sent' = [last_sent EXCEPT ![t] = "Result"]
               /\ unanswered' = [unanswered EXCEPT ![t] = @ - 1]
               /\ wpc' = [wpc EXCEPT ![t] = "ready"]
               /\ control' = control
          ELSE /\ wpc' = [wpc EXCEPT ![t] = "closed"]
               /\ control' = [control EXCEPT ![t] = <<>>]
               /\ UNCHANGED <<result, last_sent, unanswered>>
    /\ task' = [task EXCEPT ![t] = NoMessage]
    /\ UNCHANGED <<thread_count, world, workers, spawned, dpc, worker_index,
                   message, view_iterator, output, failures, set_count,
                   contributed, sync_cast, exit_sent, joined, drained,
                   exit_while_busy>>
    /\ UNCHANGED <<main_vars, core_vars, io_vars, matrix_vars>>

\* send Ready after the Result; a failed send ends the thread
WorkerReady(t) ==
    /\ wpc[t] = "ready"
    /\ IF Owned(t)
       THEN /\ result' = [result EXCEPT ![t] = Append(@, Ready)]
            /\ last_sent' = [last_sent EXCEPT ![t] = "Ready"]
            /\ wpc' = [wpc EXCEPT ![t] = "recv"]
            /\ control' = control
       ELSE /\ wpc' = [wpc EXCEPT ![t] = "closed"]
            /\ control' = [control EXCEPT ![t] = <<>>]
            /\ UNCHANGED <<result, last_sent>>
    /\ UNCHANGED <<thread_count, world, workers, spawned, dpc, worker_index,
                   message, view_iterator, output, task, failures, set_count,
                   contributed, sync_cast, unanswered, exit_sent, joined,
                   drained, exit_while_busy>>
    /\ UNCHANGED <<main_vars, core_vars, io_vars, matrix_vars>>

\* the thread dies where it runs the world's code or waits: inside cast_ray (a
\* panic) or blocked in control_rx.recv() (killed). Its control_rx and
\* worker_tx are dropped, what it had sent stays buffered
WorkerDie(t) ==
    /\ wpc[t] \in {"recv", "cast"}
    /\ dpc # "done"
    /\ failures < MaxFailures
    /\ failures' = failures + 1
    /\ wpc' = [wpc EXCEPT ![t] = "dead"]
    /\ control' = [control EXCEPT ![t] = <<>>]
    /\ task' = [task EXCEPT ![t] = NoMessage]
    /\ UNCHANGED <<thread_count, world, workers, spawned, dpc, worker_index,
                   message, view_iterator, output, result, set_count,
                   contributed, sync_cast, unanswered, last_sent, exit_sent,
                   joined, drained, exit_while_busy>>
    /\ UNCHANGED <<main_vars, core_vars, io_vars, matrix_vars>>

WorkerStep(t) ==
    \/ WorkerStart(t)
    \/ WorkerRecvCastRay(t)
    \/ WorkerRecvExit(t)
    \/ WorkerCast(t)
    \/ WorkerReady(t)

\* -------------------------------------------------- the dispatch thread
\* receive_async reporting the failure as soon as the thread has ended
receive_async_eager(t) ==
    IF Ended(t) THEN [kind |-> "Err", message |-> None]
    ELSE IF result[t] # <<>>
    THEN [kind |-> "Ok", message |-> Some(Head(result[t]))]
    ELSE [kind |-> "Ok", message |-> None]
\* ParallelWorker::receive_async on the result channel of thread t:
\* Ok(Some(message)), Ok(None) when nothing is buffered, Err(()) when nothing
\* is buffered and the worker's sender is gone
receive_async(t) ==
    IF result[t] # <<>> THEN [kind |-> "Ok", message |-> Some(Head(result[t]))]
    ELSE IF Ended(t) THEN [kind |-> "Err", message |-> None]
    ELSE [kind |-> "Ok", message |-> None]

\* receive_sync that reports a closed channel although messages are buffered
receive_sync_closed(t) == [kind |-> "Err", message |-> None]

\* ParallelWorker::receive_sync on the result channel of thread t; it blocks
\* (no step is enabled) while nothing is buffered and the sender exists
receive_sync(t) ==
    IF result[t] # <<>> THEN [kind |-> "Ok", message |-> Some(Head(result[t]))]
    ELSE [kind |-> "Err", message |-> None]

\* ParallelWorker::send succeeds while the thread holds its control_rx
send_ok(t) == ~Ended(t)

\* write_result that writes a miss as the color 0
write_result_miss(out, color_option, coord) ==
    set_output(out, coord, IF color_option # None THEN color_option[1] ELSE 0)

\* the match on color_option of a Result: Some(color) is written, None is not
write_result(out, color_option, coord) ==
    IF color_option # None THEN set_output(out, coord, color_option[1]) ELSE out

count_result(cnt, color_option, coord) ==
    IF color_option # None THEN [cnt EXCEPT ![coord] = @ + 1] ELSE cnt

\* replace_worker that forgets to push the new worker
replace_worker_NoPush(ws, index, new_worker) ==
    LET swapped == [ws EXCEPT ![index] = ws[Len(ws)]]
    IN SubSeq(swapped, 1, Len(ws) - 1)

\* replace_worker that removes the first worker of the pool, whatever the index
replace_worker_First(ws, index, new_worker) ==
    Append(SubSeq([ws EXCEPT ![1] = ws[Len(ws)]], 1, Len(ws) - 1), new_worker)

\* Vec::swap_remove(index) followed by push(new_worker)
replace_worker(ws, index, new_worker) ==
    LET swapped == [ws EXCEPT ![index] = ws[Len(ws)]]
    IN Append(SubSeq(swapped, 1, Len(ws) - 1), new_worker)

\* ParallelWorker::new and spawn: a new thread with two empty channels
new_worker == spawned + 1

\* the for loop of process_iteration goes on with the next worker; after the
\* last one it returns Ok(()) and execute calls it again, from the first worker
next_index == IF worker_index < Len(workers) THEN worker_index + 1 ELSE 1

\* execute: for _ in 1..thread_count: spawn a worker and push it
ExecuteSpawn ==
    /\ dpc = "spawn"
    /\ Len(workers) + 1 < thread_count
    /\ workers' = Append(workers, new_worker)
    /\ spawned' = new_worker
    /\ wpc' = [wpc EXCEPT ![new_worker] = "start"]
    /\ UNCHANGED <<thread_count, world, dpc, worker_index, message,
                   view_iterator, output, task, control, result, failures,
                   set_count, contributed, sync_cast, unanswered, last_sent,
                   exit_sent, joined, drained, exit_while_busy>>
    /\ UNCHANGED <<main_vars, core_vars, io_vars, matrix_vars>>

\* execute: the workers are spawned, the view iterator is created
ExecuteStartLoop ==
    /\ dpc = "spawn"
    /\ Len(workers) + 1 >= thread_count
    /\ dpc' = "poll"
    /\ worker_index' = 1
    /\ view_iterator' = 1
    /\ UNCHANGED <<thread_count, world, workers, spawned, message, output, wpc,
                   task, control, result, failures, set_count, contributed,
                   sync_cast, unanswered, last_sent, exit_sent, joined, drained,
                   exit_while_busy>>
    /\ UNCHANGED <<main_vars, core_vars, io_vars, matrix_vars>>

\* process_iteration: Ready from the polled worker, the view has a next item
\* and the CastRay is sent
PollReadyDispatch ==
    /\ dpc = "poll"
    /\ workers # <<>>
    /\ LET t == workers[worker_index]
           r == receive_async(t)
           next == ViewItem(view_iterator)
       IN /\ r.kind = "Ok" /\ r.message # None /\ r.message[1].type = "Ready"
          /\ next # None
          /\ send_ok(t)
          /\ result' = [result EXCEPT ![t] = Tail(@)]
          /\ view_iterator' = view_iterator + 1
          /\ control' = [control EXCEPT
                 ![t] = Append(@, CastRay(next[1].ray, next[1].coord))]
          /\ unanswered' = [unanswered EXCEPT ![t] = @ + 1]
    /\ worker_index' = next_index
    /\ UNCHANGED <<thread_count, world, workers, spawned, dpc, message, output,
                   wpc, task, failures, set_count, contributed, sync_cast,
                   last_sent, exit_sent, joined, drained, exit_while_busy>>
    /\ UNCHANGED <<main_vars, core_vars, io_vars, matrix_vars>>

\* process_iteration: Ready from the polled worker, the view has a next item
\* and the send fails: Err(FailedWorkerWithControlMessage(index, message))
PollReadySendFailed ==
    /\ dpc = "poll"
    /\ workers # <<>>
    /\ LET t == workers[worker_index]
           r == receive_async(t)
           next == ViewItem(view_iterator)
       IN /\ r.kind = "Ok" /\ r.message # None /\ r.message[1].type = "Ready"
          /\ next # None
          /\ ~send_ok(t)
          /\ result' = [result EXCEPT ![t] = Tail(@)]
          /\ view_iterator' = view_iterator + 1
          /\ message' = CastRay(next[1].ray, next[1].coord)
          /\ dpc' = "failed_with_message"
    /\ UNCHANGED <<thread_count, world, workers, spawned, worker_index, output,
                   wpc, task, control, failures, set_count, contributed,
                   sync_cast, unanswered, last_sent, exit_sent, joined, drained,
                   exit_while_busy>>
    /\ UNCHANGED <<main_vars, core_vars, io_vars, matrix_vars>>

\* process_iteration: Ready from the polled worker and the view iterator
\* returns None: Err(EndOfViewIteration), execute leaves its loop
PollReadyEndOfView ==
    /\ dpc = "poll"
    /\ workers # <<>>
    /\ LET t == workers[worker_index]
           r == receive_async(t)
       IN /\ r.kind = "Ok" /\ r.message # None /\ r.message[1].type = "Ready"
          /\ ViewItem(view_iterator) = None
          /\ result' = [result EXCEPT ![t] = Tail(@)]
    /\ dpc' = "exit"
    /\ worker_index' = 1
    /\ UNCHANGED <<thread_count, world, workers, spawned, message, view_iterator,
                   output, wpc, task, control, failures, set_count, contributed,
                   sync_cast, unanswered, last_sent, exit_sent, joined, drained,
                   exit_while_busy>>
    /\ UNCHANGED <<main_vars, core_vars, io_vars, matrix_vars>>

\* process_iteration: a Result from the polled worker
PollResult ==
    /\ dpc = "poll"
    /\ workers # <<>>
    /\ LET t == workers[worker_index]
           r == receive_async(t)
       IN /\ r.kind = "Ok" /\ r.message # None /\ r.message[1].type = "Result"
          /\ result' = [result EXCEPT ![t] = Tail(@)]
          /\ output' = write_result(output, r.message[1].color,
                                    r.message[1].coord)
          /\ set_count' = count_result(set_count, r.message[1].color,
                                       r.message[1].coord)
          /\ contributed' = contributed \cup {r.message[1].coord}
    /\ worker_index' = next_index
    /\ UNCHANGED <<thread_count, world, workers, spawned, dpc, message,
                   view_iterator, wpc, task, control, failures, sync_cast,
                   unanswered, last_sent, exit_sent, joined, drained,
                   exit_while_busy>>
    /\ UNCHANGED <<main_vars, core_vars, io_vars, matrix_vars>>

\* process_iteration: nothing buffered by the polled worker
PollNothing ==
    /\ dpc = "poll"
    /\ workers # <<>>
    /\ LET r == receive_async(workers[worker_index])
       IN r.kind = "Ok" /\ r.message = None
    /\ worker_index' = next_index
    /\ UNCHANGED <<thread_count, world, workers, spawned, dpc, message,
                   view_iterator, output, wpc, task, control, result, failures,
                   set_count, contributed, sync_cast, unanswered, last_sent,
                   exit_sent, joined, drained, exit_while_busy>>
    /\ UNCHANGED <<main_vars, core_vars, io_vars, matrix_vars>>

\* process_iteration: the result channel of the polled worker is closed:
\* Err(FailedWorker(index))
PollFailedWorker ==
    /\ dpc = "poll"
    /\ workers # <<>>
    /\ receive_async(workers[worker_index]).kind = "Err"
    /\ dpc' = "failed"
    /\ UNCHANGED <<thread_count, world, workers, spawned, worker_index, message,
                   view_iterator, output, wpc, task, control, result, failures,
                   set_count, contributed, sync_cast, unanswered, last_sent,
                   exit_sent, joined, drained, exit_while_busy>>
    /\ UNCHANGED <<main_vars, core_vars, io_vars, matrix_vars>>

\* process_iteration over an empty pool: the for loop has no iteration, it
\* returns Ok(()) and execute calls it again; nothing changes
IterationOk ==
    /\ dpc = "poll"
    /\ workers = <<>>
    /\ UNCHANGED vars

\* the retired ParallelWorker is dropped (its worker_rx with what is buffered
\* in it, and its control_tx), the replacement is spawned and pushed
RetireAndReplace ==
    /\ workers' = replace_worker(workers, worker_index, new_worker)
    /\ spawned' = new_worker
    /\ wpc' = [wpc EXCEPT ![new_worker] = "start"]
    /\ result' = [result EXCEPT ![workers[worker_index]] = <<>>]

\* HandleFailedWorker that also steps the view iterator back to hand the last
\* item out again
HandleFailedWorker_Redo ==
    /\ dpc = "failed"
    /\ RetireAndReplace
    /\ dpc' = "poll"
    /\ worker_index' = 1
    /\ view_iterator' = IF view_iterator > 1 THEN view_iterator - 1
                        ELSE view_iterator
    /\ UNCHANGED <<thread_count, world, message, output, task, control, failures,
                   set_count, contributed, sync_cast, unanswered, last_sent,
                   exit_sent, joined, drained, exit_while_busy>>
    /\ UNCHANGED <<main_vars, core_vars, io_vars, matrix_vars>>

\* execute: Err(FailedWorker(worker_index)) => replace_worker
HandleFailedWorker ==
    /\ dpc = "failed"
    /\ RetireAndReplace
    /\ dpc' = "poll"
    /\ worker_index' = 1
    /\ UNCHANGED <<thread_count, world, message, view_iterator, output, task,
                   control, failures, set_count, contributed, sync_cast,
                   unanswered, last_sent, exit_sent, joined, drained,
                   exit_while_busy>>
    /\ UNCHANGED <<main_vars, core_vars, io_vars, matrix_vars>>

\* HandleFailedWorkerWithControlMessage that forgets the message
HandleFailedWorkerWithControlMessage_Drop ==
    /\ dpc = "failed_with_message"
    /\ RetireAndReplace
    /\ dpc' = "poll"
    /\ worker_index' = 1
    /\ message' = NoMessage
    /\ UNCHANGED <<thread_count, world, view_iterator, output, task, control,
                   failures, set_count, contributed, sync_cast, unanswered,
                   last_sent, exit_sent, joined, drained, exit_while_busy>>
    /\ UNCHANGED <<main_vars, core_vars, io_vars, matrix_vars>>

\* HandleFailedWorkerWithControlMessage that hands the message to the
\* replacement worker instead of casting the ray itself
HandleFailedWorkerWithControlMessage_Resend ==
    /\ dpc = "failed_with_message"
    /\ RetireAndReplace
    /\ dpc' = "poll"
    /\ worker_index' = 1
    /\ message' = NoMessage
    /\ control' = [control EXCEPT ![new_worker] = <<message>>]
    /\ unanswered' = [unanswered EXCEPT ![new_worker] = 1]
    /\ UNCHANGED <<thread_count, world, view_iterator, output, task, failures,
                   set_count, contributed, sync_cast, last_sent, exit_sent,
                   joined, drained, exit_while_busy>>
    /\ UNCHANGED <<main_vars, core_vars, io_vars, matrix_vars>>

\* execute: Err(FailedWorkerWithControlMessage(worker_index, message)) =>
\* replace_worker, ...
HandleFailedWorkerWithControlMessage ==
    /\ dpc = "failed_with_message"
    /\ RetireAndReplace
    /\ dpc' = "recast"
    /\ UNCHANGED <<thread_count, world, worker_index, message, view_iterator,
                   output, task, control, failures, set_count, contributed,
                   sync_cast, unanswered, last_sent, exit_sent, joined, drained,
                   exit_while_busy>>
    /\ UNCHANGED <<main_vars, core_vars, io_vars, matrix_vars>>

\* ... then the dispatch thread casts the ray of the message itself
RecastMessage ==
    /\ dpc = "recast"
    /\ LET color_option == IF message.type = "CastRay"
                           THEN cast_ray(world, message.ray) ELSE None
       IN /\ output' = write_result(output, color_option, message.coord)
          /\ set_count' = count_result(set_count, color_option, message.coord)
    /\ contributed' = contributed \cup {message.coord}
    /\ sync_cast' = sync_cast \cup {message.coord}
    /\ message' = NoMessage
    /\ dpc' = "poll"
    /\ worker_index' = 1
    /\ UNCHANGED <<thread_count, world, workers, spawned, view_iterator, wpc,
                   task, control, result, failures, unanswered, last_sent,
                   exit_sent, joined, drained, exit_while_busy>>
    /\ UNCHANGED <<main_vars, core_vars, io_vars, matrix_vars>>

\* SendExit whose loop stops one worker short
SendExit_SkipLast ==
    /\ dpc = "exit"
    /\ LET t == workers[worker_index]
       IN /\ control' = IF send_ok(t)
                        THEN [control EXCEPT ![t] = Append(@, Exit)]
                        ELSE control
          /\ exit_sent' = exit_sent \cup {t}
          /\ exit_while_busy' =
                 IF send_ok(t) /\ unanswered[t] > 0
                 THEN exit_while_busy \cup {t} ELSE exit_while_busy
    /\ IF worker_index + 1 < Len(workers)
       THEN worker_index' = worker_index + 1 /\ dpc' = dpc
       ELSE worker_index' = 1 /\ dpc' = "join"
    /\ UNCHANGED <<thread_count, world, workers, spawned, message, view_iterator,
                   output, wpc, task, result, failures, set_count, contributed,
                   sync_cast, unanswered, last_sent, joined, drained>>
    /\ UNCHANGED <<main_vars, core_vars, io_vars, matrix_vars>>

\* execute: for worker in workers: worker.send(Exit).is_ok()
SendExit ==
    /\ dpc = "exit"
    /\ LET t == workers[worker_index]
       IN /\ control' = IF send_ok(t)
                        THEN [control EXCEPT ![t] = Append(@, Exit)]
                        ELSE control
          /\ exit_sent' = exit_sent \cup {t}
          /\ exit_while_busy' =
                 IF send_ok(t) /\ unanswered[t] > 0
                 THEN exit_while_busy \cup {t} ELSE exit_while_busy
    /\ IF worker_index < Len(workers)
       THEN worker_index' = worker_index + 1 /\ dpc' = dpc
       ELSE worker_index' = 1 /\ dpc' = "join"
    /\ UNCHANGED <<thread_count, world, workers, spawned, message, view_iterator,
                   output, wpc, task, result, failures, set_count, contributed,
                   sync_cast, unanswered, last_sent, joined, drained>>
    /\ UNCHANGED <<main_vars, core_vars, io_vars, matrix_vars>>

\* execute: for worker in workers: worker.join().is_ok(); join blocks until
\* the thread has ended
JoinWorker ==
    /\ dpc = "join"
    /\ Ended(workers[worker_index])
    /\ joined' = joined \cup {workers[worker_index]}
    /\ IF worker_index < Len(workers)
       THEN worker_index' = worker_index + 1 /\ dpc' = dpc
       ELSE worker_index' = 1 /\ dpc' = "drain"
    /\ UNCHANGED <<thread_count, world, workers, spawned, message, view_iterator,
                   output, wpc, task, control, result, failures, set_count,
                   contributed, sync_cast, unanswered, last_sent, exit_sent,
                   drained, exit_while_busy>>
    /\ UNCHANGED <<main_vars, core_vars, io_vars, matrix_vars>>

\* execute, final drain: receive_sync returns a message; a Result is written
DrainMessage ==
    /\ dpc = "drain"
    /\ LET t == workers[worker_index]
           r == receive_sync(t)
       IN /\ r.kind = "Ok"
          /\ result' = [result EXCEPT ![t] = Tail(@)]
          /\ IF r.message[1].type = "Result"
             THEN /\ drained' = drained \cup {r.message[1].coord}
                  /\ output' = write_result(output, r.message[1].color,
                                            r.message[1].coord)
                  /\ set_count' = count_result(set_count, r.message[1].color,
                                               r.message[1].coord)
                  /\ contributed' = contributed \cup {r.message[1].coord}
             ELSE UNCHANGED <<output, set_count, contributed, drained>>
    /\ UNCHANGED <<thread_count, world, workers, spawned, dpc, worker_index,
                   message, view_iterator, wpc, task, control, failures,
                   sync_cast, unanswered, last_sent, exit_sent, joined,
                   exit_while_busy>>
    /\ UNCHANGED <<main_vars, core_vars, io_vars, matrix_vars>>

\* execute, final drain: receive_sync fails, done = true, next worker
DrainDone ==
    /\ dpc = "drain"
    /\ LET t == workers[worker_index]
       IN /\ receive_sync(t).kind = "Err"
          /\ Ended(t)
    /\ IF worker_index < Len(workers)
       THEN worker_index' = worker_index + 1 /\ dpc' = dpc
       ELSE worker_index' = 1 /\ dpc' = "done"
    /\ UNCHANGED <<thread_count, world, workers, spawned, message, view_iterator,
                   output, wpc, task, control, result, failures, set_count,
                   contributed, sync_cast, unanswered, last_sent, exit_sent,
                   joined, drained, exit_while_busy>>
    /\ UNCHANGED <<main_vars, core_vars, io_vars, matrix_vars>>

DispatcherStep ==
    \/ ExecuteSpawn
    \/ ExecuteStartLoop
    \/ PollReadyDispatch
    \/ PollReadySendFailed
    \/ PollReadyEndOfView
    \/ PollResult
    \/ PollNothing
    \/ PollFailedWorker
    \/ IterationOk
    \/ HandleFailedWorker
    \/ HandleFailedWorkerWithControlMessage
    \/ RecastMessage
    \/ SendExit
    \/ JoinWorker
    \/ DrainMessage
    \/ DrainDone

\* ===================================================== main (main.rs)
\* number of tasks the WorldViewTaskProducer yields (one for every pixel)
ViewTasks == 2
\* number of tasks the GlobalIlluminationShaderTaskProducer yields
ShaderTasks == 1
\* number of models of the scene that get a global illumination buffer
ModelCount == 2
\* for _counter in 0..8: the number of task threads
TaskThreads == 8
\* MedianFilter::new(&immutable_model_buffer, 3)
FilterRadius == 3

TaskThreadIds == 1..TaskThreads
ModelIds == 1..ModelCount
Pixels == 1..ViewTasks

NoTask == [producer |-> "None"]

\* the tasks of the WorldViewTaskProducer: task n renders pixel n
WorldViewTaskProducer ==
    [n \in 1..ViewTasks |-> [producer |-> "WorldView", n |-> n]]

\* the tasks of the GlobalIlluminationShaderTaskProducer: task n samples the
\* pixel PixelOf(n) of the model ModelOf(n)
GlobalIlluminationShaderTaskProducer ==
    [n \in 1..ShaderTasks |-> [producer |-> "GlobalIllumination", n |-> n]]

ModelOf(n) == ((n - 1) % ModelCount) + 1
PixelOf(n) == ((n - 1) % ViewTasks) + 1

\* task_producer_list whose two producers are swapped
task_producer_list_swapped ==
    <<GlobalIlluminationShaderTaskProducer, WorldViewTaskProducer>>

\* let task_producer_list = vec![WorldViewTaskProducer, GI...TaskProducer]
task_producer_list ==
    <<WorldViewTaskProducer, GlobalIlluminationShaderTaskProducer>>

\* OrderedTaskProducers: the sequences of the producers one after the other,
\* in the order of the list
RECURSIVE OrderedTaskProducers(_)
OrderedTaskProducers(list) ==
    IF list = <<>> THEN <<>>
    ELSE Head(list) \o OrderedTaskProducers(Tail(list))

\* task_producer.create_task_iterator(): the sequence the iterator walks
create_task_iterator == OrderedTaskProducers(task_producer_list)

\* ThreadSafeIterator::next at position pos, an atomic fetch-and-advance:
\* the task at pos or None
next_task(pos) ==
    IF pos <= Len(create_task_iterator) THEN Some(create_task_iterator[pos])
    ELSE None

\* SceneBuffer set(coord, color)
set_pixel(buffer, pixel, value) == [buffer EXCEPT ![pixel] = Some(value)]

\* the defined values of the pixels in the window of the given radius
window(buffer, pixel, radius) ==
    {q \in Pixels : q >= pixel - radius /\ q <= pixel + radius
                    /\ buffer[q] # None}

\* the median of the values of the pixels in a non-empty window
median(buffer, win) ==
    CHOOSE v \in {buffer[q][1] : q \in win} :
        /\ 2 * Cardinality({q \in win : buffer[q][1] < v}) < Cardinality(win) + 1
        /\ 2 * Cardinality({q \in win : buffer[q][1] <= v}) >= Cardinality(win)

\* MedianFilter over a buffer: every pixel is the median of itself and its
\* defined neighbours in the window, undefined where the window has no data
MedianFilter(buffer, radius) ==
    [p \in Pixels |->
        IF window(buffer, p, radius) = {} THEN None
        ELSE Some(median(buffer, window(buffer, p, radius)))]

\* combine_buffer: the defined pixels of the overlay are layered over the base
combine_buffer(base, overlay) ==
    [p \in Pixels |-> IF overlay[p] # None THEN overlay[p] ELSE base[p]]

\* shader.get_all_model_ids_on_buffer(): the models that have a buffer, in
\* ascending order
model_ids == [k \in 1..ModelCount |-> k]

\* the value a global illumination task writes: tasks of one model write
\* different values
sample(n) == 10 * n

\* for _counter in 0..8: thread_container.push(thread::spawn(...))
MainSpawnTaskThread ==
    /\ main_pc = "spawn_tasks"
    /\ Len(thread_container) < TaskThreads
    /\ LET th == Len(thread_container) + 1
       IN /\ thread_container' = Append(thread_container, th)
          /\ tpc' = [tpc EXCEPT ![th] = "next"]
          /\ main_pc' = IF th = TaskThreads THEN "join_tasks" ELSE main_pc
    /\ UNCHANGED <<task_iterator, executable_task, worldview_buffer,
                   model_buffers, filter_container, fpc, handed, executions,
                   threads_joined, combined>>
    /\ UNCHANGED <<renderer_vars, core_vars, io_vars, matrix_vars>>

\* the task thread: while let Some(executable_task) = task_iterator.next()
TaskThreadNext(th) ==
    /\ tpc[th] = "next"
    /\ LET item == next_task(task_iterator)
       IN IF item # None
          THEN /\ task_iterator' = task_iterator + 1
               /\ executable_task' = [executable_task EXCEPT ![th] = item[1]]
               /\ handed' = Append(handed, item[1])
               /\ tpc' = [tpc EXCEPT ![th] = "execute"]
          ELSE /\ tpc' = [tpc EXCEPT ![th] = "ended"]
               /\ UNCHANGED <<task_iterator, executable_task, handed>>
    /\ UNCHANGED <<main_pc, thread_container, worldview_buffer, model_buffers,
                   filter_container, fpc, executions, threads_joined, combined>>
    /\ UNCHANGED <<renderer_vars, core_vars, io_vars, matrix_vars>>

\* TaskThreadExecute of a thread that runs its task a second time
TaskThreadExecute_Twice(th) ==
    /\ tpc[th] = "execute"
    /\ LET t == executable_task[th]
       IN /\ IF t.producer = "WorldView"
             THEN /\ worldview_buffer' = set_pixel(worldview_buffer, t.n, t.n)
                  /\ model_buffers' = model_buffers
             ELSE /\ model_buffers' = [model_buffers EXCEPT ![ModelOf(t.n)] =
                         set_pixel(@, PixelOf(t.n), sample(t.n))]
                  /\ worldview_buffer' = worldview_buffer
          /\ executions' = [executions EXCEPT ![t] = @ + 2]
    /\ executable_task' = [executable_task EXCEPT ![th] = NoTask]
    /\ tpc' = [tpc EXCEPT ![th] = "next"]
    /\ UNCHANGED <<main_pc, thread_container, task_iterator, filter_container,
                   fpc, handed, threads_joined, combined>>
    /\ UNCHANGED <<renderer_vars, core_vars, io_vars, matrix_vars>>

\* the task thread: executable_task.execute(): a view task renders its pixel
\* into the primary buffer, a global illumination task writes its sample into
\* the buffer of its model
TaskThreadExecute(th) ==
    /\ tpc[th] = "execute"
    /\ LET t == executable_task[th]
       IN /\ IF t.producer = "WorldView"
             THEN /\ worldview_buffer' = set_pixel(worldview_buffer, t.n, t.n)
                  /\ model_buffers' = model_buffers
             ELSE /\ model_buffers' = [model_buffers EXCEPT ![ModelOf(t.n)] =
                         set_pixel(@, PixelOf(t.n), sample(t.n))]
                  /\ worldview_buffer' = worldview_buffer
          /\ executions' = [executions EXCEPT ![t] = @ + 1]
    /\ executable_task' = [executable_task EXCEPT ![th] = NoTask]
    /\ tpc' = [tpc EXCEPT ![th] = "next"]
    /\ UNCHANGED <<main_pc, thread_container, task_iterator, filter_container,
                   fpc, handed, threads_joined, combined>>
    /\ UNCHANGED <<renderer_vars, core_vars, io_vars, matrix_vars>>

\* MainJoinTaskThread that does not wait for the thread to end
MainJoinTaskThread_NoWait ==
    /\ main_pc = "join_tasks"
    /\ threads_joined' = threads_joined + 1
    /\ main_pc' = IF threads_joined' = Len(thread_container)
                  THEN "spawn_filters" ELSE main_pc
    /\ UNCHANGED <<thread_container, task_iterator, tpc, executable_task,
                   worldview_buffer, model_buffers, filter_container, fpc,
                   handed, executions, combined>>
    /\ UNCHANGED <<renderer_vars, core_vars, io_vars, matrix_vars>>

\* for thread_joiner in thread_container: thread_joiner.join().unwrap()
MainJoinTaskThread ==
    /\ main_pc = "join_tasks"
    /\ tpc[thread_container[threads_joined + 1]] = "ended"
    /\ threads_joined' = threads_joined + 1
    /\ main_pc' = IF threads_joined' = Len(thread_container)
                  THEN "spawn_filters" ELSE main_pc
    /\ UNCHANGED <<thread_container, task_iterator, tpc, executable_task,
                   worldview_buffer, model_buffers, filter_container, fpc,
                   handed, executions, combined>>
    /\ UNCHANGED <<renderer_vars, core_vars, io_vars, matrix_vars>>

\* for model_id in model_ids: thread_container.push(thread::spawn(...))
MainSpawnFilterThread ==
    /\ main_pc = "spawn_filters"
    /\ LET model_id == model_ids[Len(filter_container) + 1]
       IN /\ filter_container' = Append(filter_container, model_id)
          /\ fpc' = [fpc EXCEPT ![model_id] = "start"]
    /\ main_pc' = IF Len(filter_container') = Len(model_ids)
                  THEN "join_filters" ELSE main_pc
    /\ UNCHANGED <<thread_container, task_iterator, tpc, executable_task,
                   worldview_buffer, model_buffers, handed, executions,
                   threads_joined, combined>>
    /\ UNCHANGED <<renderer_vars, core_vars, io_vars, matrix_vars>>

\* the filter thread of a model: get_model_buffer, MedianFilter::new(.., 3),
\* worldview.combine_buffer(&median_filter)
FilterThread(model_id) ==
    /\ fpc[model_id] = "start"
    /\ LET model_buffer == model_buffers[model_id]
           median_filter == MedianFilter(model_buffer, FilterRadius)
       IN /\ worldview_buffer' = combine_buffer(worldview_buffer, median_filter)
          /\ combined' = combined \cup
                 {[model |-> model_id, buffer |-> median_filter]}
    /\ fpc' = [fpc EXCEPT ![model_id] = "ended"]
    /\ UNCHANGED <<main_pc, thread_container, task_iterator, tpc,
                   executable_task, model_buffers, filter_container, handed,
                   executions, threads_joined>>
    /\ UNCHANGED <<renderer_vars, core_vars, io_vars, matrix_vars>>

\* the second join loop; after it main builds the image
MainJoinFilterThread ==
    /\ main_pc = "join_filters"
    /\ filter_container # <<>>
    /\ fpc[Head(filter_container)] = "ended"
    /\ filter_container' = Tail(filter_container)
    /\ main_pc' = IF filter_container' = <<>> THEN "image" ELSE main_pc
    /\ UNCHANGED <<thread_container, task_iterator, tpc, executable_task,
                   worldview_buffer, model_buffers, fpc, handed, executions,
                   threads_joined, combined>>
    /\ UNCHANGED <<renderer_vars, core_vars, io_vars, matrix_vars>>

\* the end of main: the image is built from the primary buffer, then
\* File::create and write_to each succeed or fail as the file system decides;
\* only a failed write_to is printed, and main returns in every case
MainSaveImage ==
    /\ main_pc = "image"
    /\ \E create_ok \in BOOLEAN, write_ok \in BOOLEAN :
          /\ created' = IF create_ok THEN "Ok" ELSE "Err"
          /\ written' = IF ~create_ok THEN "none"
                        ELSE IF write_ok THEN "Ok" ELSE "Err"
          /\ stderr' = IF create_ok /\ ~write_ok
                       THEN Append(stderr, "Couldnt save output file")
                       ELSE stderr
    /\ main_pc' = "returned"
    /\ UNCHANGED <<thread_container, task_iterator, tpc, executable_task,
                   worldview_buffer, model_buffers, filter_container, fpc,
                   handed, executions, threads_joined, combined>>
    /\ UNCHANGED <<renderer_vars, core_vars, matrix_vars>>

\* nothing has been written yet
IoIdle ==
    /\ created = "none"
    /\ written = "none"
    /\ stderr = <<>>

\* the state of main before it starts, and while the renderer or the core
\* values are looked at
MainIdle ==
    /\ main_pc = "spawn_tasks"
    /\ thread_container = <<>>
    /\ task_iterator = 1
    /\ tpc = [th \in TaskThreadIds |-> "none"]
    /\ executable_task = [th \in TaskThreadIds |-> NoTask]
    /\ worldview_buffer = [p \in Pixels |-> None]
    /\ model_buffers = [m \in ModelIds |-> [p \in Pixels |-> None]]
    /\ filter_container = <<>>
    /\ fpc = [m \in ModelIds |-> "none"]
    /\ handed = <<>>
    /\ executions = [t \in Range(create_task_iterator) |-> 0]
    /\ threads_joined = 0
    /\ combined = {}

\* ================================= the values of rtrace/src/core
\* largest finite channel value of the colors looked at
MaxChannel == 2
\* largest coordinate of the points looked at
MaxCoord == 1

\* an f64 is a pair <<numerator, denominator>>: a reduced fraction with a
\* positive denominator, or <<1, 0>> for +inf, <<-1, 0>> for -inf and
\* <<0, 0>> for NaN
NaN == <<0, 0>>
Infinity == <<1, 0>>
NegInfinity == <<-1, 0>>
One == <<1, 1>>

IsNaN(a) == a = NaN
IsFinite(a) == a[2] # 0

Abs(n) == IF n < 0 THEN -n ELSE n
Sign(n) == IF n < 0 THEN -1 ELSE IF n > 0 THEN 1 ELSE 0

RECURSIVE GCD(_, _)
GCD(a, b) == IF b = 0 THEN a ELSE GCD(b, a % b)

\* the f64 of the fraction n / d, d > 0
Fraction(n, d) ==
    LET g == GCD(Abs(n), d) IN <<n \div g, d \div g>>

\* a < b on f64: false when one of them is NaN
f_lt(a, b) ==
    /\ ~IsNaN(a) /\ ~IsNaN(b)
    /\ IF ~IsFinite(a) /\ ~IsFinite(b) THEN a[1] < b[1]
       ELSE a[1] * b[2] < b[1] * a[2]

\* f64::min and f64::max: when one argument is NaN the other is returned
f_min(a, b) ==
    IF IsNaN(a) THEN b ELSE IF IsNaN(b) THEN a
    ELSE IF f_lt(b, a) THEN b ELSE a

f_max(a, b) ==
    IF IsNaN(a) THEN b ELSE IF IsNaN(b) THEN a
    ELSE IF f_lt(a, b) THEN b ELSE a

\* a / b on f64
f_div(a, b) ==
    IF IsNaN(a) \/ IsNaN(b) THEN NaN
    ELSE IF ~IsFinite(a) /\ ~IsFinite(b) THEN NaN
    ELSE IF ~IsFinite(a) THEN <<a[1] * (IF b[1] < 0 THEN -1 ELSE 1), 0>>
    ELSE IF ~IsFinite(b) THEN <<0, 1>>
    ELSE IF b[1] = 0 THEN <<Sign(a[1]), 0>>
    ELSE Fraction(a[1] * b[2] * Sign(b[1]), a[2] * Abs(b[1]))

\* the channel values looked at: the halves from -1 to MaxChannel, the
\* infinities and NaN
Channels ==
    {Fraction(k, 2) : k \in (-2)..(2 * MaxChannel)}
        \cup {NaN, Infinity, NegInfinity}

\* ColorBase::new
ColorBase(r, g, b) == [r |-> r, g |-> g, b |-> b]

Colors == {ColorBase(r, g, b) : r \in Channels, g \in Channels, b \in Channels}

\* normalize that clamps the red and the green channel only
normalize_two(c) == ColorBase(f_min(c.r, One), f_min(c.g, One), c.b)

\* ColorBase::normalize: every channel becomes channel.min(1)
normalize(c) == ColorBase(f_min(c.r, One), f_min(c.g, One), f_min(c.b, One))

\* ColorBase::normalized: normalize on a clone
normalized(c) == normalize(c)

\* scale_normalized that divides by the red channel instead of the maximum
scale_normalized_red(c) ==
    LET maximum == f_max(c.r, f_max(c.g, c.b))
    IN IF f_lt(One, maximum)
       THEN ColorBase(f_div(c.r, c.r), f_div(c.g, c.r), f_div(c.b, c.r))
       ELSE c

\* ColorBase::scale_normalized
scale_normalized(c) ==
    LET maximum == f_max(c.r, f_max(c.g, c.b))
    IN IF f_lt(One, maximum)
       THEN ColorBase(f_div(c.r, maximum), f_div(c.g, maximum),
                      f_div(c.b, maximum))
       ELSE c

\* color.normalize(): the receiver is changed in place
Normalize ==
    /\ color_call # "idle"
    /\ color_self' = normalize(color_self)
    /\ color_result' = color_self'
    /\ color_call' = "normalize"
    /\ UNCHANGED <<ray_origin, point, intersection>>
    /\ UNCHANGED <<renderer_vars, main_vars, io_vars, matrix_vars>>

\* color.normalized(): the receiver is left alone, a new color is returned
Normalized ==
    /\ color_call # "idle"
    /\ color_result' = normalized(color_self)
    /\ color_call' = "normalized"
    /\ UNCHANGED <<color_self, ray_origin, point, intersection>>
    /\ UNCHANGED <<renderer_vars, main_vars, io_vars, matrix_vars>>

\* color.scale_normalized()
ScaleNormalized ==
    /\ color_call # "idle"
    /\ color_result' = scale_normalized(color_self)
    /\ color_call' = "scale_normalized"
    /\ UNCHANGED <<color_self, ray_origin, point, intersection>>
    /\ UNCHANGED <<renderer_vars, main_vars, io_vars, matrix_vars>>

\* the points looked at: a grid of integer coordinates
Points == {<<x, y, z>> : x \in 0..MaxCoord, y \in 0..MaxCoord, z \in 0..MaxCoord}

\* the square of the tolerance of near_zero_eps, in the unit of the grid: two
\* neighbours on an axis of the grid are nearer than the tolerance
EpsilonSquared == 2

\* na::distance(origin, point), kept as its square: the distance is the
\* non-negative root of this number
distance(a, b) ==
    [squared |-> (a[1] - b[1]) * (a[1] - b[1]) + (a[2] - b[2]) * (a[2] - b[2])
                 + (a[3] - b[3]) * (a[3] - b[3])]

\* CompareWithTolerance::near_zero_eps of a distance: |d| < epsilon
near_zero_eps(d) == d.squared < EpsilonSquared

\* RayIntersection::new with the test the wrong way round
RayIntersection_new_inverted(origin, p) ==
    LET distance_to_intersection == distance(origin, p)
    IN IF near_zero_eps(distance_to_intersection)
       THEN [kind |-> "Ok", point |-> p, ray |-> origin,
             distance_to_intersection |-> distance_to_intersection]
       ELSE [kind |-> "Err", error |-> "NoRayTravelDistance"]

\* RayIntersection::new(normal, point, ray, material, was_inside)
RayIntersection_new(origin, p) ==
    LET distance_to_intersection == distance(origin, p)
    IN IF ~near_zero_eps(distance_to_intersection)
       THEN [kind |-> "Ok", point |-> p, ray |-> origin,
             distance_to_intersection |-> distance_to_intersection]
       ELSE [kind |-> "Err", error |-> "NoRayTravelDistance"]

\* a call of RayIntersection::new on the ray and the point
NewIntersection ==
    /\ intersection.kind = "None"
    /\ ray_origin \in Points
    /\ intersection' = RayIntersection_new(ray_origin, point)
    /\ UNCHANGED <<color_self, color_result, color_call, ray_origin, point>>
    /\ UNCHANGED <<renderer_vars, main_vars, io_vars, matrix_vars>>
\* no color and no intersection is looked at
CoreIdle ==
    /\ color_self = ColorBase(One, One, One)
    /\ color_result = color_self
    /\ color_call = "idle"
    /\ ray_origin = <<>>
    /\ point = <<>>
    /\ intersection = [kind |-> "Idle"]

\* the renderer has not been constructed
RendererIdle ==
    /\ thread_count = 1
    /\ world = {}
    /\ workers = <<>>
    /\ spawned = 0
    /\ dpc = "idle"
    /\ worker_index = 1
    /\ message = NoMessage
    /\ view_iterator = 1
    /\ output = [c \in Coords |-> None]
    /\ wpc = [t \in Threads |-> "none"]
    /\ task = [t \in Threads |-> NoMessage]
    /\ control = [t \in Threads |-> <<>>]
    /\ result = [t \in Threads |-> <<>>]
    /\ failures = 0
    /\ set_count = [c \in Coords |-> 0]
    /\ contributed = {}
    /\ sync_cast = {}
    /\ unanswered = [t \in Threads |-> 0]
    /\ last_sent = [t \in Threads |-> "None"]
    /\ exit_sent = {}
    /\ joined = {}
    /\ drained = {}
    /\ exit_while_busy = {}

\* ================================= the matrix (src/linalg/matrix.rs)
\* largest n and m of the matrices looked at
MaxDim == 2
\* largest first element of the fillers the matrices are built from
MaxFirst == 2

\* Result::Ok(value) and Result::Err(value)
Ok(value) == [kind |-> "Ok", value |-> value]
Err(value) == [kind |-> "Err", value |-> value]
\* Option::unwrap on None: the thread panics
Panicked == [kind |-> "Panic"]

\* enum MatrixOpResult
MatrixOpResult ==
    {"Successful", "SizeMismatch", "InvalidIndex", "InvalidSize",
     "NotSquareMatrix", "NotVector"}

\* struct Matrix { n, m, data }
Matrix(n, m, data) == [n |-> n, m |-> m, data |-> data]

\* Matrix::new: n * m zeroes
Matrix_new(n, m) ==
    IF (n < 1) \/ (m < 1) THEN Err("InvalidSize")
    ELSE Ok(Matrix(n, m, [idx \in 1..(n * m) |-> 0]))

\* Matrix::new_filled: the filler is taken over when it has n * m elements
new_filled(n, m, filler) ==
    IF (n < 1) \/ (m < 1) THEN Err("InvalidSize")
    ELSE IF Len(filler) # n * m THEN Err("SizeMismatch")
    ELSE Ok(Matrix(n, m, filler))

\* the matrices looked at: every n x m up to MaxDim, filled with
\* first, first + 1, ... so that all elements of one matrix differ
Matrices ==
    {new_filled(n, m, [idx \in 1..(n * m) |-> first + idx - 1]).value :
        n \in 1..MaxDim, m \in 1..MaxDim, first \in 1..MaxFirst}

\* the usize arguments handed to the index functions
Indices == 0..MaxDim
Positions == 0..(MaxDim * MaxDim)

\* Matrix::coord_transform: the position of (i, j) in data
coord_transform(self, i, j) ==
    IF (i < self.n) /\ (j < self.m) THEN Ok(i * self.n + j)
    ELSE Err("InvalidIndex")

\* Matrix::index_transform: the (i, j) of position n of data
index_transform(self, n) ==
    IF n < Len(self.data) THEN Ok(<<n \div self.n, n % self.n>>)
    ELSE Err("InvalidIndex")

\* Vec::get(value).unwrap(): the element at value, a panic past the end
unwrap_get(data, value) ==
    IF value < Len(data) THEN Ok(data[value + 1]) ELSE Panicked

\* Matrix::get_immut: a clone of the element at (i, j)
get_immut(self, i, j) ==
    LET transformed == coord_transform(self, i, j)
    IN IF transformed.kind = "Ok"
       THEN unwrap_get(self.data, transformed.value)
       ELSE transformed

\* Matrix::get_mut: the place of the element at (i, j), as its position
get_mut(self, i, j) ==
    LET transformed == coord_transform(self, i, j)
    IN IF transformed.kind = "Ok"
       THEN IF unwrap_get(self.data, transformed.value).kind = "Ok"
            THEN transformed
            ELSE Panicked
       ELSE transformed

\* add_mnum and sub_mnum, the op_function of add_mut and of sub_mut
add_mnum(rhs, lhs) == rhs + lhs
sub_mnum(rhs, lhs) == rhs - lhs
OpFunctions == {"add_mnum", "sub_mnum"}
op_call(op_function, lhsval, rhsval) ==
    IF op_function = "add_mnum" THEN add_mnum(lhsval, rhsval)
    ELSE sub_mnum(lhsval, rhsval)

\* the loop of by_each_element_mut from idx on; a call on a matrix is
\* returned as the matrix it leaves in self and the value it returns
RECURSIVE each_element(_, _, _, _)
each_element(self, rhs, op_function, idx) ==
    IF idx >= Len(self.data)
    THEN [self |-> self, result |-> Ok("Successful")]
    ELSE LET lhsval == self.data[idx + 1]
             rhsval == unwrap_get(rhs.data, idx)
         IN IF rhsval.kind # "Ok"
            THEN [self |-> self, result |-> Panicked]
            ELSE each_element(
                     [self EXCEPT !.data[idx + 1] =
                         op_call(op_function, lhsval, rhsval.value)],
                     rhs, op_function, idx + 1)

\* by_each_element_mut without the check of m
by_each_element_mut_rows(self, rhs, op_function) ==
    IF self.n # rhs.n
    THEN [self |-> self, result |-> Err("SizeMismatch")]
    ELSE each_element(self, rhs, op_function, 0)
\* Matrix::by_each_element_mut
by_each_element_mut(self, rhs, op_function) ==
    IF (self.n # rhs.n) \/ (self.m # rhs.m)
    THEN [self |-> self, result |-> Err("SizeMismatch")]
    ELSE each_element(self, rhs, op_function, 0)

\* Matrix::add_mut and Matrix::sub_mut
add_mut(self, rhs) == by_each_element_mut(self, rhs, "add_mnum")
sub_mut(self, rhs) == by_each_element_mut(self, rhs, "sub_mnum")

\* the three loops of xmul_immut from step on: step counts the passes of the
\* innermost body, i over result.n, j over result.n, k over result.m
RECURSIVE xmul_loop(_, _, _, _)
xmul_loop(self, rhs, result_matrix, step) ==
    IF step >= result_matrix.n * result_matrix.n * result_matrix.m
    THEN Ok(result_matrix)
    ELSE LET i == step \div (result_matrix.n * result_matrix.m)
             j == (step \div result_matrix.m) % result_matrix.n
             k == step % result_matrix.m
             nval == get_mut(result_matrix, i, k)
             lhsval == get_immut(self, i, k)
             rhsval == get_immut(rhs, j, k)
         IN IF nval.kind # "Ok" THEN nval
            ELSE IF lhsval.kind # "Ok" THEN lhsval
            ELSE IF rhsval.kind # "Ok" THEN rhsval
            ELSE xmul_loop(self, rhs,
                     [result_matrix EXCEPT !.data[nval.value + 1] =
                         @ + lhsval.value * rhsval.value],
                     step + 1)

\* Matrix::xmul_immut
xmul_immut(self, rhs) ==
    IF self.m # rhs.n THEN Err("SizeMismatch")
    ELSE LET value == Matrix_new(self.n, rhs.m)
         IN IF value.kind # "Ok" THEN value
            ELSE xmul_loop(self, rhs, value.value, 0)

\* Matrix::xmul_mut: self becomes the product only when there is one
xmul_mut(self, rhs) ==
    LET value == xmul_immut(self, rhs)
    IN IF value.kind = "Ok"
       THEN [self |-> value.value, result |-> Ok("Successful")]
       ELSE [self |-> self, result |-> value]

\* a call of add_mut on the two matrices
AddMut ==
    /\ matrix_call.op = "new_filled"
    /\ matrix_call' = [op |-> "add_mut"]
    /\ matrix_self' = add_mut(matrix_self, matrix_rhs).self
    /\ matrix_result' = add_mut(matrix_self, matrix_rhs).result
    /\ UNCHANGED matrix_rhs
    /\ UNCHANGED <<renderer_vars, main_vars, core_vars, io_vars>>

\* a call of sub_mut on the two matrices
SubMut ==
    /\ matrix_call.op = "new_filled"
    /\ matrix_call' = [op |-> "sub_mut"]
    /\ matrix_self' = sub_mut(matrix_self, matrix_rhs).self
    /\ matrix_result' = sub_mut(matrix_self, matrix_rhs).result
    /\ UNCHANGED matrix_rhs
    /\ UNCHANGED <<renderer_vars, main_vars, core_vars, io_vars>>

\* a call of by_each_element_mut on the two matrices
ByEachElementMut ==
    /\ matrix_call.op = "new_filled"
    /\ \E op_function \in OpFunctions :
          /\ matrix_call' = [op |-> "by_each_element_mut",
                             op_function |-> op_function]
          /\ matrix_self' =
                by_each_element_mut(matrix_self, matrix_rhs, op_function).self
          /\ matrix_result' =
                by_each_element_mut(matrix_self, matrix_rhs,
                                    op_function).result
    /\ UNCHANGED matrix_rhs
    /\ UNCHANGED <<renderer_vars, main_vars, core_vars, io_vars>>

\* a call of xmul_immut on the two matrices
XmulImmut ==
    /\ matrix_call.op = "new_filled"
    /\ matrix_call' = [op |-> "xmul_immut"]
    /\ matrix_result' = xmul_immut(matrix_self, matrix_rhs)
    /\ UNCHANGED <<matrix_self, matrix_rhs>>
    /\ UNCHANGED <<renderer_vars, main_vars, core_vars, io_vars>>

\* a call of xmul_mut on the two matrices
XmulMut ==
    /\ matrix_call.op = "new_filled"
    /\ matrix_call' = [op |-> "xmul_mut"]
    /\ matrix_self' = xmul_mut(matrix_self, matrix_rhs).self
    /\ matrix_result' = xmul_mut(matrix_self, matrix_rhs).result
    /\ UNCHANGED matrix_rhs
    /\ UNCHANGED <<renderer_vars, main_vars, core_vars, io_vars>>

\* a call of coord_transform on the matrix
CoordTransform ==
    /\ matrix_call.op = "new_filled"
    /\ \E i \in Indices, j \in Indices :
          /\ matrix_call' = [op |-> "coord_transform", i |-> i, j |-> j]
          /\ matrix_result' = coord_transform(matrix_self, i, j)
    /\ UNCHANGED <<matrix_self, matrix_rhs>>
    /\ UNCHANGED <<renderer_vars, main_vars, core_vars, io_vars>>

\* a call of index_transform on the matrix
IndexTransform ==
    /\ matrix_call.op = "new_filled"
    /\ \E n \in Positions :
          /\ matrix_call' = [op |-> "index_transform", n |-> n]
          /\ matrix_result' = index_transform(matrix_self, n)
    /\ UNCHANGED <<matrix_self, matrix_rhs>>
    /\ UNCHANGED <<renderer_vars, main_vars, core_vars, io_vars>>

\* a call of get_immut on the matrix
GetImmut ==
    /\ matrix_call.op = "new_filled"
    /\ \E i \in Indices, j \in Indices :
          /\ matrix_call' = [op |-> "get_immut", i |-> i, j |-> j]
          /\ matrix_result' = get_immut(matrix_self, i, j)
    /\ UNCHANGED <<matrix_self, matrix_rhs>>
    /\ UNCHANGED <<renderer_vars, main_vars, core_vars, io_vars>>

\* no matrix is looked at
MatrixIdle ==
    /\ matrix_self = Matrix(1, 1, <<0>>)
    /\ matrix_rhs = matrix_self
    /\ matrix_call = [op |-> "idle"]
    /\ matrix_result = [kind |-> "None"]

\* ------------------------------------------------------- the specification
Init ==
    /\ thread_count \in 1..MaxThreadCount
    /\ world \in Worlds
    /\ workers = <<>>
    /\ spawned = 0
    /\ dpc = "spawn"
    /\ worker_index = 1
    /\ message = NoMessage
    /\ view_iterator = 1
    /\ output = [c \in Coords |-> None]
    /\ wpc = [t \in Threads |-> "none"]
    /\ task = [t \in Threads |-> NoMessage]
    /\ control = [t \in Threads |-> <<>>]
    /\ result = [t \in Threads |-> <<>>]
    /\ failures = 0
    /\ set_count = [c \in Coords |-> 0]
    /\ contributed = {}
    /\ sync_cast = {}
    /\ unanswered = [t \in Threads |-> 0]
    /\ last_sent = [t \in Threads |-> "None"]
    /\ exit_sent = {}
    /\ joined = {}
    /\ drained = {}
    /\ exit_while_busy = {}
    /\ MainIdle
    /\ CoreIdle
    /\ IoIdle
    /\ MatrixIdle

Next ==
    \/ DispatcherStep
    \/ \E t \in Threads : WorkerStep(t)
    \/ \E t \in Threads : WorkerDie(t)

Spec == Init /\ [][Next]_vars

\* the dispatch thread and every worker thread keep running; a worker is never
\* bound to die
FairSpec ==
    /\ Spec
    /\ WF_vars(DispatcherStep)
    /\ \A t \in Threads : WF_vars(WorkerStep(t))

TypeOK ==
    /\ thread_count \in 1..MaxThreadCount
    /\ Range(workers) \subseteq Threads
    /\ Len(workers) < thread_count
    /\ dpc \in {"spawn", "poll", "failed", "failed_with_message", "recast",
                "exit", "join", "drain", "done"}
    /\ view_iterator \in 1..(ViewLen + 1)
    /\ failures \in 0..MaxFailures
    /\ \A t \in Threads : wpc[t] \in {"none", "start", "recv", "cast",
                                      "ready", "exited", "closed", "dead"}

\* ------------------------------------------ the specification of main
MainInit ==
    /\ MainIdle
    /\ RendererIdle
    /\ CoreIdle
    /\ IoIdle
    /\ MatrixIdle

MainNext ==
    \/ MainSpawnTaskThread
    \/ \E th \in TaskThreadIds : TaskThreadNext(th)
    \/ \E th \in TaskThreadIds : TaskThreadExecute(th)
    \/ MainJoinTaskThread
    \/ MainSpawnFilterThread
    \/ \E m \in ModelIds : FilterThread(m)
    \/ MainJoinFilterThread
    \/ MainSaveImage

MainSpec == MainInit /\ [][MainNext]_vars

\* -------------------------------------- the specification of the colors
ColorInit ==
    /\ color_self \in Colors
    /\ color_result = color_self
    /\ color_call = "new"
    /\ ray_origin = <<>>
    /\ point = <<>>
    /\ intersection = [kind |-> "Idle"]
    /\ MainIdle
    /\ RendererIdle
    /\ IoIdle
    /\ MatrixIdle

ColorNext ==
    \/ Normalize
    \/ Normalized
    \/ ScaleNormalized

ColorSpec == ColorInit /\ [][ColorNext]_vars

\* ------------------------------- the specification of the intersections
IntersectionInit ==
    /\ ray_origin \in Points
    /\ point \in Points
    /\ intersection = [kind |-> "None"]
    /\ color_self = ColorBase(One, One, One)
    /\ color_result = color_self
    /\ color_call = "idle"
    /\ MainIdle
    /\ RendererIdle
    /\ IoIdle
    /\ MatrixIdle

IntersectionNext == NewIntersection

IntersectionSpec == IntersectionInit /\ [][IntersectionNext]_vars

\* ----------------------------------- the specification of the matrix
MatrixInit ==
    /\ matrix_self \in Matrices
    /\ matrix_rhs \in Matrices
    /\ matrix_call = [op |-> "new_filled"]
    /\ matrix_result = [kind |-> "None"]
    /\ MainIdle
    /\ RendererIdle
    /\ CoreIdle
    /\ IoIdle

MatrixNext ==
    \/ AddMut
    \/ SubMut
    \/ ByEachElementMut
    \/ XmulImmut
    \/ XmulMut
    \/ CoordTransform
    \/ IndexTransform
    \/ GetImmut

MatrixSpec == MatrixInit /\ [][MatrixNext]_vars

\* --------------------------------------------- the single threaded renderer
\* SingleThreadedRenderer::execute from item pos on: every item of the view is
\* cast in order and Some(color) is written at its coordinate
RECURSIVE single_threaded_execute(_, _, _)
single_threaded_execute(w, pos, out) ==
    IF ViewItem(pos) = None THEN out
    ELSE LET item == ViewItem(pos)[1]
             cast == cast_ray(w, item.ray)
         IN single_threaded_execute(w, pos + 1,
                IF cast # None THEN set_output(out, item.coord, cast[1])
                ELSE out)

\* ------------------------------------------------------------- the claims
\* the coordinates of the items the dispatcher has pulled from the view
Dispatched == {Coord(i) : i \in 1..(view_iterator - 1)}

\* the coordinates in the CastRay and Result messages that are in a channel or
\* being cast by a worker
InFlight ==
    UNION {{control[t][k].coord : k \in {j \in 1..Len(control[t]) :
                                           control[t][j].type = "CastRay"}}
           \cup {result[t][k].coord : k \in {j \in 1..Len(result[t]) :
                                               result[t][j].type = "Result"}}
           \cup (IF task[t].type = "CastRay" THEN {task[t].coord} ELSE {})
           : t \in Threads}

\* thread t has put a message on its result channel in this step
Sends(t) == Len(result'[t]) = Len(result[t]) + 1

\* the dispatcher has put a CastRay on the control channel of t in this step
SendsCastRay(t) ==
    /\ Len(control'[t]) = Len(control[t]) + 1
    /\ control'[t][Len(control'[t])].type = "CastRay"

\* C1: every work item pulled from the view iterator has contributed its
\* result-or-miss to the output by the time execute returns, also when the
\* worker it was dispatched to died before sending its Result
C1_NoDispatchedItemLost ==
    dpc = "done" => Dispatched \subseteq contributed

\* C2: set_output is called at most once for every coordinate of the view,
\* with any number of worker failures and replacements
C2_SetOutputAtMostOnce ==
    \A c \in Coords : set_count[c] <= 1

\* C2 witness: execute has returned after a failure, a replacement and a
\* synchronous recast that wrote its coordinate, and a worker has answered
\* another item
C2_Witness ==
    /\ dpc = "done"
    /\ failures > 0
    /\ \E c \in sync_cast : set_count[c] = 1
    /\ contributed \ sync_cast # {}

\* C3: when the send of CastRay(ray, coord) fails, the dispatcher replaces the
\* worker, then casts that ray itself and writes the color (if any) at that
\* coord before it polls again; the ray goes to no worker
C3_SendFailureRecast ==
    /\ [][ /\ (dpc = "poll" /\ dpc' = "failed_with_message") =>
               /\ ViewItem(view_iterator) # None
               /\ message' = CastRay(ViewItem(view_iterator)[1].ray,
                                     ViewItem(view_iterator)[1].coord)
               /\ control' = control
           /\ (dpc = "failed_with_message" /\ dpc' # dpc) =>
               /\ dpc' = "recast"
               /\ message' = message
               /\ workers[worker_index] \notin Range(workers')
               /\ Len(workers') = Len(workers)
               /\ control' = control
               /\ message.coord \notin contributed'
           /\ (dpc = "recast" /\ dpc' # dpc) =>
               /\ dpc' = "poll"
               /\ worker_index' = 1
               /\ message.coord \in contributed'
               /\ output' = write_result(output, cast_ray(world, message.ray),
                                         message.coord)
               /\ control' = control
         ]_vars
    /\ [](sync_cast \cap InFlight = {})
    /\ [](message.type = "CastRay" => message.coord \notin InFlight)

\* C3 witness: the dispatcher is polling again after it recast a ray whose
\* send had failed, and the color of that ray is in the output
C3_Witness ==
    /\ dpc = "poll"
    /\ \E c \in sync_cast : output[c] # None /\ set_count[c] = 1

\* C4: with fair scheduling execute eventually returns, for every
\* thread_count >= 1, and every item of the view has then been computed
C4_ExecuteReturns ==
    <>(dpc = "done" /\ Dispatched = Coords /\ Coords \subseteq contributed)

\* C5: when no worker failed and execute has returned, set_output was called
\* exactly once for every coordinate whose ray hits and never for a miss
C5_ExactlyOncePerHit ==
    (dpc = "done" /\ failures = 0) =>
        \A i \in Rays :
            set_count[Coord(i)] = IF cast_ray(world, i) # None THEN 1 ELSE 0

\* C5 witness: execute returned without a failure and the final drain wrote a
\* color that was still in flight when the view was exhausted
C5_Witness ==
    /\ dpc = "done"
    /\ failures = 0
    /\ \E c \in drained : set_count[c] = 1
    /\ \E i \in Rays : cast_ray(world, i) = None

C7_OneCastPerReady ==
    /\ [](\A t \in Threads : unanswered[t] \in {0, 1})
    /\ [][\A t \in Threads :
            SendsCastRay(t) =>
                /\ result[t] # <<>>
                /\ Head(result[t]).type = "Ready"
                /\ result'[t] = Tail(result[t])]_vars

\* C7 witness: a replacement worker has been sent a CastRay
C7_Witness ==
    \E t \in Range(workers) : t >= thread_count /\ unanswered[t] = 1

\* C8: the first message a worker sends is Ready, after a Ready it sends only
\* the Result of the CastRay it received, with the coordinate of that CastRay,
\* after a Result only a Ready; it waits for a CastRay only after a Ready
C8_WorkerMessageSequence ==
    /\ [][\A t \in Threads :
            Sends(t) =>
                LET sent == result'[t][Len(result'[t])]
                IN CASE last_sent[t] = "None" ->
                            sent.type = "Ready" /\ wpc[t] = "start"
                     [] last_sent[t] = "Ready" ->
                            /\ sent.type = "Result"
                            /\ task[t].type = "CastRay"
                            /\ sent.coord = task[t].coord
                     [] last_sent[t] = "Result" ->
                            sent.type = "Ready" /\ wpc[t] = "ready"]_vars
    /\ [][\A t \in Threads :
            (task'[t] # task[t] /\ task'[t].type = "CastRay") =>
                control[t] # <<>> /\ task'[t] = Head(control[t])]_vars
    /\ [](\A t \in Threads :
            /\ wpc[t] \in {"recv", "cast", "exited"} => last_sent[t] = "Ready"
            /\ wpc[t] = "ready" => last_sent[t] = "Result"
            /\ wpc[t] = "cast" => unanswered[t] = 1)

\* C8 witness: one worker has answered both a hit and a miss and is waiting
\* for its next message
C8_Witness ==
    /\ thread_count = 2
    /\ failures = 0
    /\ Cardinality(contributed) >= 2
    /\ wpc[workers[1]] = "recv"
    /\ last_sent[workers[1]] = "Ready"

\* C9: Exit is sent only after the view iterator returned None, every worker
\* of the pool is sent Exit before one is joined, and every worker is joined
\* before the final drain starts
C9_ShutdownOrder ==
    /\ (exit_sent # {} \/ dpc \in {"exit", "join", "drain", "done"}) =>
           ViewItem(view_iterator) = None
    /\ (\E t \in Threads : \E k \in 1..Len(control[t]) :
           control[t][k].type = "Exit") => ViewItem(view_iterator) = None
    /\ (joined # {} \/ dpc \in {"join", "drain", "done"}) =>
           Range(workers) \subseteq exit_sent
    /\ (drained # {} \/ dpc \in {"drain", "done"}) =>
           Range(workers) \subseteq joined

\* C9 witness: the final drain of a pool of two workers is under way
C9_Witness ==
    /\ dpc = "drain"
    /\ Len(workers) = 2
    /\ worker_index = 2
    /\ drained # {}

\* C10: a worker that leaves on Exit has answered every CastRay that was sent
\* to it before the Exit with its Result and a Ready
C10_ExitAfterCast ==
    \A t \in Threads :
        wpc[t] = "exited" =>
            /\ task[t] = NoMessage
            /\ unanswered[t] = 0
            /\ last_sent[t] = "Ready"

\* C10 witness: a worker that was sent Exit while a CastRay was unanswered
\* has left on that Exit
C10_Witness ==
    \E t \in exit_while_busy : wpc[t] = "exited"

\* C11: after the spawn loop the pool holds exactly thread_count - 1 workers,
\* in the dispatch loop and in the shutdown phase, after any replacement, and
\* exactly thread_count - 1 threads plus one per replacement were spawned
C11_PoolSize ==
    /\ dpc # "spawn" => Len(workers) = thread_count - 1
    /\ dpc = "spawn" => Len(workers) <= thread_count - 1
    /\ Cardinality(Range(workers)) = Len(workers)
    /\ (dpc # "spawn" /\ failures = 0) => spawned = thread_count - 1

\* C11 witness: the shutdown phase of a pool of two workers is reached after a
\* worker was replaced
C11_Witness ==
    /\ dpc = "join"
    /\ thread_count = 3
    /\ spawned > thread_count - 1
    /\ Len(workers) = 2

\* C12: the step that handles a failure detected on worker i retires exactly
\* that worker, which has ended, and pushes exactly one new worker with empty
\* channels on the same world; every other worker of the pool keeps its
\* position, its channels and its task
C12_ReplaceOnlyFailedWorker ==
    [][(dpc \in {"failed", "failed_with_message"} /\ dpc' # dpc) =>
          LET retired == workers[worker_index]
          IN /\ Ended(retired)
             /\ spawned' = spawned + 1
             /\ spawned' \notin Range(workers)
             /\ Len(workers') = Len(workers)
             /\ Range(workers') = (Range(workers) \ {retired}) \cup {spawned'}
             /\ wpc'[spawned'] = "start"
             /\ control'[spawned'] = <<>> /\ result'[spawned'] = <<>>
             /\ world' = world
             /\ \A t \in Range(workers) \ {retired} :
                   /\ wpc'[t] = wpc[t]
                   /\ control'[t] = control[t]
                   /\ result'[t] = result[t]
                   /\ task'[t] = task[t]
                   /\ unanswered'[t] = unanswered[t]]_vars

\* C12 witness: the second worker of the pool has just been replaced while the
\* first one is casting a ray
C12_Witness ==
    /\ Len(workers) = 2
    /\ wpc[workers[2]] = "start"
    /\ workers[2] >= thread_count
    /\ wpc[workers[1]] = "cast"
    /\ workers[1] < thread_count
    /\ dpc \in {"poll", "recast"}

\* C13: every step that writes the output or advances the view iterator is a
\* step of the dispatch thread and no step of a worker thread
C13_DispatcherOnlyWrites ==
    [][(output' # output \/ set_count' # set_count
        \/ view_iterator' # view_iterator) =>
          /\ DispatcherStep
          /\ wpc' = wpc /\ task' = task /\ last_sent' = last_sent]_vars

\* C13 witness: the dispatch thread has written a color to the output and has
\* pulled the last item of the view while a worker thread is casting a ray
C13_Witness ==
    /\ \E c \in Coords : output[c] # None
    /\ ViewItem(view_iterator) = None
    /\ \E t \in Range(workers) : wpc[t] = "cast"
    /\ failures = 0

\* the tasks of the WorldViewTaskProducer and the number of all tasks
ViewTaskSet == Range(WorldViewTaskProducer)
TaskCount == ViewTasks + ShaderTasks

\* C14: the shared task iterator hands out every task of the first producer
\* (the view tasks) before any task of the second producer (the global
\* illumination tasks), whichever thread calls next()
C14_ProducerOrder ==
    /\ \A i, j \in 1..Len(handed) :
          (i < j /\ handed[i].producer = "GlobalIllumination") =>
              handed[j].producer = "GlobalIllumination"
    /\ \A i \in 1..Len(handed) :
          handed[i].producer = "GlobalIllumination" =>
              ViewTaskSet \subseteq {handed[k] : k \in 1..(i - 1)}

\* C14 witness: a thread other than the first one has been handed a global
\* illumination task after all view tasks were handed out
C14_Witness ==
    \E th \in TaskThreadIds :
        /\ th > 1
        /\ tpc[th] = "execute"
        /\ executable_task[th].producer = "GlobalIllumination"
        /\ Len(handed) > ViewTasks

\* C15: no global illumination task is being executed before every view task
\* has finished executing
C15_ViewFullyPrecedesShader ==
    \A th \in TaskThreadIds :
        (tpc[th] = "execute"
         /\ executable_task[th].producer = "GlobalIllumination") =>
            \A t \in ViewTaskSet : executions[t] >= 1

\* C16: every task of the sequence is obtained by exactly one thread: the
\* tasks handed out are the single threaded sequence, no two threads hold the
\* same task, no task is executed twice, and when all threads have ended
\* every task was executed once
C16_EveryTaskOnce ==
    /\ Len(handed) <= TaskCount
    /\ handed = SubSeq(create_task_iterator, 1, Len(handed))
    /\ \A th1, th2 \in TaskThreadIds :
          (th1 # th2 /\ executable_task[th1] # NoTask) =>
              executable_task[th1] # executable_task[th2]
    /\ \A t \in Range(create_task_iterator) : executions[t] <= 1
    /\ (\A th \in TaskThreadIds : tpc[th] = "ended") =>
          \A t \in Range(create_task_iterator) : executions[t] = 1

\* C16 witness: the iterator is exhausted, all task threads have been joined
\* and every task was executed
C16_Witness ==
    /\ threads_joined = TaskThreads
    /\ next_task(task_iterator) = None
    /\ \A t \in Range(create_task_iterator) : executions[t] = 1

\* C17: a filter thread runs only after all task threads have ended and have
\* been joined, and what is combined onto the primary buffer for a model is
\* the median filter of the buffer of that model
C17_FilterAfterJoin ==
    /\ (\E m \in ModelIds : fpc[m] # "none") =>
          /\ threads_joined = TaskThreads
          /\ \A th \in TaskThreadIds : tpc[th] = "ended"
    /\ \A x \in combined :
          x.buffer = MedianFilter(model_buffers[x.model], FilterRadius)
    /\ main_pc = "image" => {x.model : x \in combined} = ModelIds

\* C17 witness: every model has been combined and the filter has changed the
\* buffer of a model
C17_Witness ==
    /\ main_pc = "image"
    /\ Cardinality(combined) = ModelCount
    /\ \E x \in combined : x.buffer # model_buffers[x.model]

\* the square of the distance between the origin of the ray and the point
SquaredTravel ==
    (ray_origin[1] - point[1]) * (ray_origin[1] - point[1])
    + (ray_origin[2] - point[2]) * (ray_origin[2] - point[2])
    + (ray_origin[3] - point[3]) * (ray_origin[3] - point[3])

\* C18: RayIntersection::new returns Err(NoRayTravelDistance) exactly when the
\* distance from the origin of the ray to the point is zero within the
\* tolerance; otherwise it returns an intersection whose distance is that
\* distance and is strictly positive
C18_NoRayTravelDistance ==
    intersection.kind \in {"Ok", "Err"} =>
        /\ intersection.kind = "Err" <=> SquaredTravel < EpsilonSquared
        /\ intersection.kind = "Err" =>
               intersection.error = "NoRayTravelDistance"
        /\ intersection.kind = "Ok" =>
               /\ intersection.distance_to_intersection.squared = SquaredTravel
               /\ intersection.distance_to_intersection.squared > 0
               /\ intersection.point = point
               /\ ray_origin # point

\* C18 witness: new has refused a point that is not the origin of the ray but
\* nearer to it than the tolerance
C18_Witness ==
    /\ intersection.kind = "Err"
    /\ ray_origin # point

\* the names of the channels of a color
ChannelNames == {"r", "g", "b"}

\* a <= b on f64
f_le(a, b) == f_lt(a, b) \/ (~IsNaN(a) /\ a = b)

\* y is x clamped to at most 1: y is at most 1, it is x when x is at most 1
\* and 1 when x exceeds 1
Clamped(x, y) ==
    /\ f_le(y, One)
    /\ f_le(x, One) => y = x
    /\ f_lt(One, x) => y = One

\* C19: normalize and normalized yield the color with every channel clamped
\* to at most 1; a channel that is at most 1 is not modified, and normalize on
\* a normalized color changes nothing
C19_NormalizeClamps ==
    /\ [][/\ color_call' = "normalize" =>
               /\ \A ch \in ChannelNames :
                     Clamped(color_self[ch], color_self'[ch])
               /\ color_result' = color_self'
          /\ color_call' = "normalized" =>
               /\ \A ch \in ChannelNames :
                     Clamped(color_self[ch], color_result'[ch])
               /\ color_self' = color_self
          /\ (color_call = "normalize" /\ color_call' = "normalize") =>
               color_self' = color_self]_vars
    /\ [](color_call = "normalize" =>
             \A ch \in ChannelNames : f_le(color_self[ch], One))

\* C19 witness: normalized has clamped a channel that exceeded 1, has replaced
\* a NaN channel and has left alone a channel below 1
C19_Witness ==
    /\ color_call = "normalized"
    /\ f_lt(One, color_self.r) /\ color_result.r = One
    /\ f_lt(color_self.g, One) /\ color_result.g = color_self.g
    /\ IsNaN(color_self.b) /\ color_result.b = One

\* no channel of the color exceeds 1
NoChannelExceedsOne(c) == \A ch \in ChannelNames : ~f_lt(One, c[ch])

\* m is the largest channel of the color
IsLargest(c, m) ==
    /\ \E ch \in ChannelNames : c[ch] = m
    /\ \A ch \in ChannelNames : ~f_lt(m, c[ch])
    /\ ~IsNaN(m)

\* the finite channels of the two colors have the same ratios
SameRatios(c, d) ==
    \A x, y \in ChannelNames :
        (IsFinite(c[x]) /\ IsFinite(c[y]) /\ IsFinite(d[x]) /\ IsFinite(d[y]))
            => (d[x][1] * c[y][1]) * (d[y][2] * c[x][2])
                   = (d[y][1] * c[x][1]) * (d[x][2] * c[y][2])

\* what C20 says of a color c and the color d that scale_normalized returned
ScaledToOne(c, d) ==
    /\ NoChannelExceedsOne(c) => d = c
    /\ ~NoChannelExceedsOne(c) =>
           /\ IsLargest(d, One)
           /\ \A m \in Channels :
                 IsLargest(c, m) =>
                     \A ch \in ChannelNames : d[ch] = f_div(c[ch], m)
           /\ SameRatios(c, d)

\* C20 as stated: for every color, scale_normalized returns it unchanged when
\* no channel exceeds 1 and otherwise divided by its largest channel, so that
\* the largest channel of the result is 1 and the ratios are kept
C20_ScaleNormalized ==
    color_call = "scale_normalized" => ScaledToOne(color_self, color_result)

\* C20 amended: the same for every color whose channels are not +infinity
C20_ScaleNormalizedFinite ==
    (color_call = "scale_normalized"
     /\ \A ch \in ChannelNames : color_self[ch] # Infinity) =>
        ScaledToOne(color_self, color_result)

\* C20 witness: scale_normalized has divided a color with finite channels by
\* its largest channel, which exceeds 1
C20_Witness ==
    /\ color_call = "scale_normalized"
    /\ \A ch \in ChannelNames : IsFinite(color_self[ch])
    /\ color_self.g = <<2, 1>>
    /\ color_self.r = One
    /\ color_result.g = One
    /\ color_result.r = <<1, 2>>

\* the two operands of an element-wise call differ in n or in m
SizesDiffer == (matrix_self.n # matrix_rhs.n) \/ (matrix_self.m # matrix_rhs.m)

\* the last call returned Err(SizeMismatch)
ReturnedSizeMismatch ==
    /\ matrix_result.kind = "Err"
    /\ matrix_result.value = "SizeMismatch"

\* C21: add_mut, sub_mut and by_each_element_mut on operands that differ in
\* n or m, and xmul_mut on operands with self.m # rhs.n, return
\* Err(SizeMismatch) and leave the n, the m and the data of self as they
\* were before the call.
C21_SizeMismatchLeavesSelf ==
    [][/\ (/\ matrix_call'.op \in {"add_mut", "sub_mut", "by_each_element_mut"}
           /\ SizesDiffer)
          => (/\ ReturnedSizeMismatch'
              /\ matrix_self' = matrix_self)
       /\ (/\ matrix_call'.op = "xmul_mut"
           /\ matrix_self.m # matrix_rhs.n)
          => (/\ ReturnedSizeMismatch'
              /\ matrix_self' = matrix_self)]_vars

\* C21 witness: by_each_element_mut was called on two matrices with the same
\* n and different m and returned Err(SizeMismatch).
C21_Witness ==
    /\ matrix_call.op = "by_each_element_mut"
    /\ matrix_self.n = matrix_rhs.n
    /\ matrix_self.m # matrix_rhs.m
    /\ ReturnedSizeMismatch

\* the final image was not written: File::create or write_to failed
ImageWriteFailed == (created = "Err") \/ (written = "Err")

\* C22: when main has returned and creating output/result.png or writing the
\* image to it failed, main has printed the failure (and it has returned:
\* there is no panic on this path).
C22_WriteFailureReported ==
    (main_pc = "returned" /\ ImageWriteFailed) => stderr # <<>>

\* the shutdown phase of execute: Exit is being sent, the workers are being
\* joined, or their result channels are being drained
ShuttingDown == dpc \in {"exit", "join", "drain"}

\* the number of CastRay messages in a control channel
RECURSIVE CastRays(_)
CastRays(channel) ==
    IF channel = <<>> THEN 0
    ELSE (IF Head(channel).type = "CastRay" THEN 1 ELSE 0)
         + CastRays(Tail(channel))

\* an upper bound of the steps thread t takes before it ends or blocks
StepsLeft(t) ==
    LET at_recv == 3 * CastRays(control[t]) + 1
    IN CASE wpc[t] = "start" -> 1 + at_recv
         [] wpc[t] = "recv" -> at_recv
         [] wpc[t] = "cast" -> 2 + at_recv
         [] wpc[t] = "ready" -> 1 + at_recv
         [] OTHER -> 0

\* the loop passes the dispatcher has left in the shutdown phase
PassesLeft ==
    LET rest == Len(workers) - worker_index + 1
    IN CASE dpc = "exit" -> rest + 2 * Len(workers)
         [] dpc = "join" -> rest + Len(workers)
         [] dpc = "drain" -> rest
         [] OTHER -> 0

RECURSIVE SumUpTo(_, _)
SumUpTo(f, n) == IF n = 0 THEN 0 ELSE f[n] + SumUpTo(f, n - 1)

\* what is left of the shutdown: the passes of the dispatcher, the buffered
\* messages it still has to drain, and the steps of the threads
ShutdownMeasure ==
    PassesLeft
    + SumUpTo([t \in Threads |-> Len(result[t]) + 2 * StepsLeft(t)],
              Cardinality(Threads))

\* C23: the shutdown phase never blocks forever. At every moment of it the
\* dispatcher can take its next step (send Exit, return from join, receive
\* in the final drain) or the worker it waits for can take one, and every
\* step taken during the shutdown lowers a natural number, so that every
\* join returns and every final drain ends with its receive error; this
\* holds whatever the workers of the pool are (running, dead before Exit was
\* sent, or a replacement that got no task).
C23_ShutdownEnds ==
    /\ [](ShuttingDown =>
            \/ ENABLED DispatcherStep
            \/ ENABLED WorkerStep(workers[worker_index]))
    /\ [][ShuttingDown => ShutdownMeasure' < ShutdownMeasure]_vars

\* C23 witness: the shutdown is over and the pool it joined and drained
\* holds a worker that had died.
C23_Witness ==
    /\ dpc = "done"
    /\ \E t \in Range(workers) : wpc[t] = "dead"
    /\ Range(workers) \subseteq joined

\* a Result is buffered, unread, in the result channel of thread t
UnreadResult(t) ==
    \E k \in 1..Len(result[t]) : result[t][k].type = "Result"

\* C24: whenever the dispatcher is about to retire a worker, on FailedWorker
\* or on FailedWorkerWithControlMessage, the result channel of that worker holds
\* no unread Result: every Result the worker sent has been received (and
\* written) before replace_worker drops the worker.
C24_NoUnreadResultAtRetirement ==
    dpc \in {"failed", "failed_with_message"}
        => ~UnreadResult(workers[worker_index])

\* C24 witness: the only worker of the pool sent a Result that was written,
\* then failed and was retired; its replacement has not run yet.
C24_Witness ==
    /\ thread_count = 2
    /\ workers = <<2>>
    /\ wpc[2] = "start"
    /\ wpc[1] = "dead"
    /\ contributed # {}
    /\ sync_cast = {}

\* thread t was spawned and replace_worker has dropped its ParallelWorker
Retired(t) == t \in 1..spawned /\ ~Owned(t)

\* every retired thread had ended when it was retired: the dispatcher sees a
\* failure only on a channel whose other end the thread has dropped, and the
\* thread drops it only by ending
RetiredThreadsHaveEnded == \A t \in Threads : Retired(t) => Ended(t)

\* the valid index pairs of a matrix
ValidPairs(self) == (0..(self.n - 1)) \X (0..(self.m - 1))

\* the last call was handed a valid index pair of the receiver
CalledOnValidPair ==
    <<matrix_call.i, matrix_call.j>> \in ValidPairs(matrix_self)

\* C26: for every n x m matrix, square or not, get_immut on a valid (i, j)
\* never indexes past the end of data, and coord_transform on a valid (i, j)
\* returns a position of 0 .. n*m-1 that no other valid pair is mapped to and
\* that index_transform maps back to (i, j).
C26_CoordTransformBijective ==
    /\ (matrix_call.op = "get_immut" /\ CalledOnValidPair)
          => matrix_result.kind = "Ok"
    /\ (matrix_call.op = "coord_transform" /\ CalledOnValidPair)
          => /\ matrix_result.kind = "Ok"
             /\ matrix_result.value \in 0..(matrix_self.n * matrix_self.m - 1)
             /\ \A other \in ValidPairs(matrix_self) :
                   other # <<matrix_call.i, matrix_call.j>>
                      => coord_transform(matrix_self, other[1], other[2]).value
                            # matrix_result.value
             /\ index_transform(matrix_self, matrix_result.value).kind = "Ok"
             /\ index_transform(matrix_self, matrix_result.value).value
                   = <<matrix_call.i, matrix_call.j>>

\* element (i, j) of a matrix whose data holds its rows one after the other
Element(self, i, j) == self.data[i * self.m + j + 1]

\* the sum over j < count of A[i][j] * B[j][k]
RECURSIVE DotProduct(_, _, _, _, _)
DotProduct(A, B, i, k, count) ==
    IF count = 0 THEN 0
    ELSE Element(A, i, count - 1) * Element(B, count - 1, k)
         + DotProduct(A, B, i, k, count - 1)

\* C27: xmul_immut on an n x m matrix A and an m x p matrix B returns Ok of
\* the n x p matrix whose element (i, k) is the sum over j of
\* A[i][j] * B[j][k]; it never returns an error when A.m = B.n.
C27_XmulIsProduct ==
    (matrix_call.op = "xmul_immut" /\ matrix_self.m = matrix_rhs.n)
       => /\ matrix_result.kind = "Ok"
          /\ matrix_result.value.n = matrix_self.n
          /\ matrix_result.value.m = matrix_rhs.m
          /\ \A i \in 0..(matrix_self.n - 1), k \in 0..(matrix_rhs.m - 1) :
                Element(matrix_result.value, i, k)
                   = DotProduct(matrix_self, matrix_rhs, i, k, matrix_self.m)

====
